---- MODULE Spec2Model ----
(***************************************************************************)
(* A model of the SignVision training pipeline:                            *)
(*   training/scripts/collect_data.py    feature extraction and recorder   *)
(*   training/scripts/train_model.py     dataset loader and training loop  *)
(*   training/scripts/convert_to_onnx.py exporter                          *)
(*                                                                         *)
(* Numbers the scripts compute in floating point are modelled exactly:     *)
(* landmark coordinates are integers and a feature value is a reduced      *)
(* fraction <<numerator, denominator>>.                                    *)
(***************************************************************************)
EXTENDS Integers, Sequences, FiniteSets, TLC

(***************************************************************************)
(* Program constants.                                                      *)
(***************************************************************************)
SEQUENCE_LENGTH == 30

HAND_LANDMARKS == 21

HAND_FEATURES == 63

USE_POSE == TRUE

POSE_LANDMARKS_COUNT == 11

POSE_FEATURES == IF USE_POSE THEN POSE_LANDMARKS_COUNT * 3 ELSE 0

TOTAL_FEATURES == HAND_FEATURES * 2 + POSE_FEATURES

\* Indices into the detector's pose landmark list (0-based, as in the source).
POSE_INDICES == <<0, 11, 12, 13, 14, 15, 16, 23, 24, 25, 26>>

(***************************************************************************)
(* Helpers for exact arithmetic.                                           *)
(***************************************************************************)
Abs(n) == IF n < 0 THEN -n ELSE n

Max2(a, b) == IF a >= b THEN a ELSE b

Min2(a, b) == IF a <= b THEN a ELSE b

RECURSIVE GCD(_, _)
GCD(a, b) == IF b = 0 THEN a ELSE GCD(b, a % b)

\* The value n/d (d > 0) as a reduced fraction.
Frac(n, d) ==
    IF n = 0 THEN <<0, 1>>
    ELSE LET g == GCD(Abs(n), d) IN <<n \div g, d \div g>>

Zero == <<0, 1>>

\* np.zeros(n)
Zeros(n) == [i \in 1..n |-> Zero]

\* rows (each of 3 values) laid out one after the other: ndarray.flatten()
\* of an (n, 3) array, or list.extend of one triple after another.
Flatten3(rows) ==
    [k \in 1..(3 * Len(rows)) |-> rows[((k - 1) \div 3) + 1][((k - 1) % 3) + 1]]

SetMax(S) == CHOOSE m \in S : \A x \in S : x <= m

\* np.max(np.abs(s)) of a non-empty sequence of integers
SeqMaxAbs(s) == SetMax({Abs(s[k]) : k \in 1..Len(s)})

(***************************************************************************)
(* Feature extraction (collect_data.py).                                   *)
(* A landmark is <<x, y, z>>; a hand or a pose is its sequence of           *)
(* landmarks, and an absent one (Python's None) is the empty sequence.     *)
(***************************************************************************)
None == <<>>

normalize_hand_landmarks(landmarks) ==
    IF landmarks = None THEN Zeros(HAND_FEATURES)
    ELSE LET base    == landmarks[1]
             coords  == [i \in 1..Len(landmarks) |->
                            [c \in 1..3 |-> landmarks[i][c] - base[c]]]
             flat    == Flatten3(coords)
             max_val == SeqMaxAbs(flat)
         IN  IF max_val > 0
             THEN [k \in 1..Len(flat) |-> Frac(flat[k], max_val)]
             ELSE [k \in 1..Len(flat) |-> Frac(flat[k], 1)]

\* The three values one pose index contributes.
PoseTriple(pose_landmarks, idx) ==
    IF idx < Len(pose_landmarks)
    THEN LET lm == pose_landmarks[idx + 1]
         IN  <<Frac(lm[1], 1), Frac(lm[2], 1), Frac(lm[3], 1)>>
    ELSE <<Zero, Zero, Zero>>

\* A variant that leaves out the landmarks a short pose lacks instead of
\* writing zeros for them.
extract_pose_subset_skip(pose_landmarks) ==
    IF pose_landmarks = None THEN Zeros(POSE_FEATURES)
    ELSE Flatten3([k \in 1..Cardinality({j \in 1..POSE_LANDMARKS_COUNT :
                                           POSE_INDICES[j] < Len(pose_landmarks)}) |->
                    PoseTriple(pose_landmarks, POSE_INDICES[k])])

extract_pose_subset(pose_landmarks) ==
    IF pose_landmarks = None THEN Zeros(POSE_FEATURES)
    ELSE Flatten3([k \in 1..POSE_LANDMARKS_COUNT |->
                    PoseTriple(pose_landmarks, POSE_INDICES[k])])

\* A variant that puts the detection labelled "Left" in the left slot.
RECURSIVE AssignHands_unmirrored(_, _, _)
AssignHands_unmirrored(hand_result, i, hands) ==
    IF i > Len(hand_result.handedness) THEN hands
    ELSE LET label     == hand_result.handedness[i]
             landmarks == hand_result.hand_landmarks[i]
         IN  IF label = "Left"
             THEN AssignHands_unmirrored(hand_result, i + 1, <<landmarks, hands[2]>>)
             ELSE AssignHands_unmirrored(hand_result, i + 1, <<hands[1], landmarks>>)

\* A variant that keeps the first detection of a side.
RECURSIVE AssignHands_first_wins(_, _, _)
AssignHands_first_wins(hand_result, i, hands) ==
    IF i > Len(hand_result.handedness) THEN hands
    ELSE LET label     == hand_result.handedness[i]
             landmarks == hand_result.hand_landmarks[i]
         IN  IF label = "Left"
             THEN AssignHands_first_wins(hand_result, i + 1,
                     <<hands[1], IF hands[2] = None THEN landmarks ELSE hands[2]>>)
             ELSE AssignHands_first_wins(hand_result, i + 1,
                     <<IF hands[1] = None THEN landmarks ELSE hands[1], hands[2]>>)

\* The loop over hand_result.handedness: hands is <<left_hand, right_hand>>
\* so far, i the next detection (1-based).
RECURSIVE AssignHands(_, _, _)
AssignHands(hand_result, i, hands) ==
    IF i > Len(hand_result.handedness) THEN hands
    ELSE LET label     == hand_result.handedness[i]
             landmarks == hand_result.hand_landmarks[i]
         IN  IF label = "Left"
             THEN AssignHands(hand_result, i + 1, <<hands[1], landmarks>>)
             ELSE AssignHands(hand_result, i + 1, <<landmarks, hands[2]>>)

\* A pose_result is the sequence of detected poses (empty when none).
extract_all_features(hand_result, pose_result) ==
    LET hands == IF hand_result.hand_landmarks # <<>>
                 THEN AssignHands(hand_result, 1, <<None, None>>)
                 ELSE <<None, None>>
        left_features  == normalize_hand_landmarks(hands[1])
        right_features == normalize_hand_landmarks(hands[2])
        features       == left_features \o right_features
    IN  IF USE_POSE
        THEN LET pose_landmarks == IF pose_result # <<>> THEN pose_result[1]
                                   ELSE None
             IN  features \o extract_pose_subset(pose_landmarks)
        ELSE features

(***************************************************************************)
(* Detector outputs the model draws from.                                  *)
(***************************************************************************)
\* Three hands of 21 landmarks: two distinct open hands and a degenerate one
\* (every landmark on the wrist), which normalises to all zeros.
HandA == [i \in 1..HAND_LANDMARKS |-> <<2 + i, 5 - i, i % 3>>]

HandB == [i \in 1..HAND_LANDMARKS |-> <<7 - 2 * i, 1 + (i % 4), 3>>]

HandDot == [i \in 1..HAND_LANDMARKS |-> <<4, 4, 1>>]

HandShapes == {HandA, HandB, HandDot}

Handedness == {"Left", "Right"}

\* hand_result: parallel lists handedness / hand_landmarks of zero, one or
\* two detections (num_hands=2).
HandResults ==
    {[handedness |-> <<>>, hand_landmarks |-> <<>>]}
    \cup {[handedness |-> <<l>>, hand_landmarks |-> <<h>>] :
             l \in Handedness, h \in HandShapes}
    \cup {[handedness |-> <<l1, l2>>, hand_landmarks |-> <<h1, h2>>] :
             l1 \in Handedness, l2 \in Handedness,
             h1 \in HandShapes, h2 \in HandShapes}

\* The detector's full pose has 33 landmarks; a truncated list exercises
\* the idx < len(pose_landmarks) test.
PoseFull == [i \in 1..33 |-> <<i, 40 - i, 2 * i>>]

PoseShort == [i \in 1..14 |-> <<3 * i, i, 1>>]

PoseResults == {<<>>, <<PoseFull>>, <<PoseShort>>}

(***************************************************************************)
(* Bounds of the model.                                                    *)
(***************************************************************************)
\* Clock units per sampling interval (1 / FPS_TARGET seconds).
TimeRes == 2

\* The most the clock advances between two readings of time.time().
MaxDt == 3

\* The clock stops advancing here.
MaxTime == 64

\* The most detection calls of one run of the collector.
MaxDetections == 34

\* Pre-existing sample files of a label are numbered within 0..MaxIndex.
MaxIndex == 3

(***************************************************************************)
(* State.                                                                  *)
(***************************************************************************)
VARIABLES
    \* Feature extraction on one frame.
    hand_result, pose_result, features,
    \* collect_data.main
    pc, current_label, is_recording, current_sequence, last_frame_time,
    frame_timestamp, samples_collected,
    \* History: the labels that were active when the frames now in
    \* current_sequence were captured.
    captured_under,
    \* History: the sampling ticks at or above the interval fed since the
    \* last start command while no other command was given (-1: no such
    \* run is in progress), and DATA_DIR as it was at that start command.
    fed, dir0,
    \* The clock: the last value time.time() returned.
    now,
    \* DATA_DIR: label directory -> (sample number -> array).
    data_dir,
    \* train_model.main: its position, the load_data result, the encoded
    \* labels, the model weights in memory and the loop variables.
    tpc, loaded, y, model, epoch, best_val_acc, patience_counter,
    \* History: the highest validation accuracy of this run so far and the
    \* first epoch that reached it.
    hist_max, hist_argmax,
    \* CONFIG_DIR/model_config.json, CONFIG_DIR/labels.json,
    \* MODELS_DIR/sign_model_best.pt and MODELS_DIR/sign_model.pt
    config_file, labels_file, best_pt, model_pt,
    \* convert_to_onnx.main: its position, the config and weights it loaded,
    \* MODELS_DIR/sign_model.onnx, the three files of the public folder,
    \* and the outcome of the verification step.
    epc, e_config, e_model, onnx_file, public, verified,
    \* History: the public folder as it was when the export started.
    public0

featureVars == <<hand_result, pose_result, features>>

collectorVars == <<pc, current_label, is_recording, current_sequence,
                   last_frame_time, frame_timestamp, samples_collected,
                   captured_under, fed, dir0, now>>

trainVars == <<tpc, loaded, y, model, epoch, best_val_acc, patience_counter,
               hist_max, hist_argmax>>

artifactVars == <<config_file, labels_file, best_pt, model_pt>>

exportVars == <<epc, e_config, e_model, onnx_file, public, verified, public0>>

pipelineVars == <<trainVars, artifactVars, exportVars>>

vars == <<featureVars, collectorVars, data_dir, pipelineVars>>

\* What the collector never touches.
offCollector == <<featureVars, pipelineVars>>

(***************************************************************************)
(* Feature extraction on arbitrary detector outputs.                       *)
(***************************************************************************)
NotRun == <<"not run">>

FeaturesInit ==
    /\ hand_result \in HandResults
    /\ pose_result \in PoseResults
    /\ features = NotRun

ExtractFrame ==
    /\ features = NotRun
    /\ features' = extract_all_features(hand_result, pose_result)
    /\ UNCHANGED <<hand_result, pose_result>>

(***************************************************************************)
(* The collector (collect_data.main).                                      *)
(*                                                                         *)
(* A frame of the buffer is kept as the length of its feature vector.  An  *)
(* array on disk is [shape, labs]: its numpy shape, and (history) the      *)
(* labels that were active while its rows were captured.  The debug        *)
(* overlay toggled by 'd' is display state and is not modelled.            *)
(***************************************************************************)
\* current_label = None
NoLabel == ""

LetterKeys == {"a", "b"}

\* What the user may type at the "Enter gesture name" prompt.
TypedNames == {"", "  ", " Hi", "hi"}

\* input().strip().lower().replace(' ', '_') on TypedNames
Gesture(typed) ==
    CASE typed = ""    -> ""
      [] typed = "  "  -> ""
      [] typed = " Hi" -> "hi"
      [] typed = "hi"  -> "hi"

Labels == LetterKeys \cup {"hi"}

\* Detector outputs seen by the collector: nothing at all, one hand with
\* pose, two hands without pose, two detections of the same side.
CollectorDetections ==
    {[hand |-> [handedness |-> <<>>, hand_landmarks |-> <<>>],
      pose |-> <<>>],
     [hand |-> [handedness |-> <<"Left">>, hand_landmarks |-> <<HandA>>],
      pose |-> <<PoseFull>>],
     [hand |-> [handedness |-> <<"Right", "Left">>,
                hand_landmarks |-> <<HandA, HandB>>],
      pose |-> <<>>],
     [hand |-> [handedness |-> <<"Right", "Right">>,
                hand_landmarks |-> <<HandB, HandDot>>],
      pose |-> <<PoseShort>>]}

\* Each of these detector outputs with the features line 428 extracts from it.
CollectorFrames ==
    {[det |-> d, features |-> extract_all_features(d.hand, d.pose)] :
        d \in CollectorDetections}

\* frame_delay = 1.0 / FPS_TARGET, in clock units
frame_delay == TimeRes

\* The values a call of time.time() may return.
TimeReadings == {t \in now..(now + MaxDt) : t <= MaxTime}

\* np.array(seq).shape for a list of 1-D arrays of the lengths in seq
ArrayShape(seq) ==
    IF seq = <<>> THEN <<0>>
    ELSE IF \A i \in 1..Len(seq) : seq[i] = seq[1]
         THEN <<Len(seq), seq[1]>>
         ELSE <<Len(seq)>>

\* A variant that numbers the next sample by the count of the files.
get_next_sample_number_count(dir, label) ==
    IF label \notin DOMAIN dir THEN 0
    ELSE Cardinality(DOMAIN dir[label])

\* The number get_next_sample_number returns; dir is DATA_DIR as it stands.
get_next_sample_number(dir, label) ==
    IF label \notin DOMAIN dir THEN 0
    ELSE LET existing == DOMAIN dir[label]
         IN  IF existing = {} THEN 0 ELSE SetMax(existing) + 1

\* DATA_DIR after np.save(label_dir/<sample_num>.npy, array); the label
\* directory has been created by get_next_sample_number when missing.
SaveSample(dir, label, sample_num, array) ==
    LET old == IF label \in DOMAIN dir THEN dir[label] ELSE [i \in {} |-> <<>>]
        new == [i \in (DOMAIN old) \cup {sample_num} |->
                   IF i = sample_num THEN array ELSE old[i]]
    IN  [l \in (DOMAIN dir) \cup {label} |-> IF l = label THEN new ELSE dir[l]]

\* get_data_stats
get_data_stats(dir) ==
    [l \in Labels |-> IF l \in DOMAIN dir THEN Cardinality(DOMAIN dir[l]) ELSE 0]

\* A variant that asks for more than the interval.
DueForCapture_strict(current_time) == current_time - last_frame_time > frame_delay

\* Line 427
DueForCapture(current_time) == current_time - last_frame_time >= frame_delay

\* A variant that completes one frame late.
SequenceComplete_late(seq) == Len(seq) > SEQUENCE_LENGTH

\* Line 432
SequenceComplete(seq) == Len(seq) >= SEQUENCE_LENGTH

\* Lines 433-440: the buffer seq is saved under the current label.
Persist(seq, labs) ==
    LET sample_num == get_next_sample_number(data_dir, current_label)
        array      == [shape |-> ArrayShape(seq), labs |-> labs]
    IN  /\ data_dir' = SaveSample(data_dir, current_label, sample_num, array)
        /\ samples_collected' = [samples_collected EXCEPT ![current_label] = @ + 1]

\* cap.read() fails: continue.
ReadFail ==
    /\ pc = "loop"
    /\ UNCHANGED vars

\* Lines 425-444, with the frame's feature vector of length n.
RecordingLogic(n) ==
    IF is_recording
    THEN \E current_time \in TimeReadings :
           /\ now' = current_time
           /\ IF DueForCapture(current_time)
              THEN LET appended == Append(current_sequence, n)
                       labs     == captured_under \cup {current_label}
                   IN  /\ last_frame_time' = current_time
                       /\ fed' = IF fed >= 0 THEN fed + 1 ELSE fed
                       /\ IF SequenceComplete(appended)
                          THEN /\ Persist(appended, labs)
                               /\ is_recording' = FALSE
                               /\ current_sequence' = <<>>
                               /\ captured_under' = {}
                          ELSE /\ current_sequence' = appended
                               /\ captured_under' = labs
                               /\ UNCHANGED <<data_dir, samples_collected, is_recording>>
              ELSE /\ fed' = -1
                   /\ UNCHANGED <<current_sequence, last_frame_time, data_dir,
                                  samples_collected, is_recording, captured_under>>
    ELSE UNCHANGED <<now, current_sequence, last_frame_time, data_dir,
                     samples_collected, is_recording, captured_under, fed>>

\* A variant that passes the detectors the timestamp of the frame before.
Tick_same_timestamp(frame) ==
    /\ pc = "loop"
    /\ frame_timestamp < 33 * MaxDetections
    /\ frame_timestamp' = frame_timestamp
    /\ pc' = "key"
    /\ RecordingLogic(Len(frame.features))
    /\ UNCHANGED <<offCollector, current_label, dir0>>

\* One frame read and detected (lines 355-371), then the recording logic.
Tick(frame) ==
    /\ pc = "loop"
    /\ frame_timestamp < 33 * MaxDetections
    /\ frame_timestamp' = frame_timestamp + 33
    /\ pc' = "key"
    /\ RecordingLogic(Len(frame.features))
    /\ UNCHANGED <<offCollector, current_label, dir0>>

KeyQuit ==
    /\ pc = "key"
    /\ pc' = "done"
    /\ fed' = -1
    /\ UNCHANGED <<offCollector, current_label, is_recording, current_sequence,
                   last_frame_time, frame_timestamp, samples_collected,
                   captured_under, dir0, now, data_dir>>

\* A variant whose cancel keeps the buffered frames.
KeySpace_keep ==
    /\ pc = "key"
    /\ pc' = "loop"
    /\ IF current_label # NoLabel
       THEN IF ~is_recording
            THEN \E t \in TimeReadings :
                   /\ now' = t
                   /\ is_recording' = TRUE
                   /\ current_sequence' = <<>>
                   /\ captured_under' = {}
                   /\ last_frame_time' = t
                   /\ fed' = 0
                   /\ dir0' = data_dir
            ELSE /\ is_recording' = FALSE
                 /\ fed' = -1
                 /\ UNCHANGED <<now, last_frame_time, dir0, current_sequence,
                                captured_under>>
       ELSE /\ fed' = -1
            /\ UNCHANGED <<now, is_recording, current_sequence, last_frame_time,
                           captured_under, dir0>>
    /\ UNCHANGED <<offCollector, current_label, frame_timestamp,
                   samples_collected, data_dir>>

\* SPACE: start when idle, cancel when recording; ignored without a label.
KeySpace ==
    /\ pc = "key"
    /\ pc' = "loop"
    /\ IF current_label # NoLabel
       THEN IF ~is_recording
            THEN \E t \in TimeReadings :
                   /\ now' = t
                   /\ is_recording' = TRUE
                   /\ current_sequence' = <<>>
                   /\ captured_under' = {}
                   /\ last_frame_time' = t
                   /\ fed' = 0
                   /\ dir0' = data_dir
            ELSE /\ is_recording' = FALSE
                 /\ current_sequence' = <<>>
                 /\ captured_under' = {}
                 /\ fed' = -1
                 /\ UNCHANGED <<now, last_frame_time, dir0>>
       ELSE /\ fed' = -1
            /\ UNCHANGED <<now, is_recording, current_sequence, last_frame_time,
                           captured_under, dir0>>
    /\ UNCHANGED <<offCollector, current_label, frame_timestamp,
                   samples_collected, data_dir>>

\* 'd' toggles the overlay, 's' prints the statistics; any other key, or
\* none, does nothing.
KeyOther ==
    /\ pc = "key"
    /\ pc' = "loop"
    /\ UNCHANGED <<offCollector, current_label, is_recording, current_sequence,
                   last_frame_time, frame_timestamp, samples_collected,
                   captured_under, fed, dir0, now, data_dir>>

\* '0': the custom gesture name.
KeyCustom(typed) ==
    /\ pc = "key"
    /\ pc' = "loop"
    /\ LET gesture == Gesture(typed)
       IN  current_label' = IF gesture # "" THEN gesture ELSE current_label
    /\ fed' = -1
    /\ UNCHANGED <<offCollector, is_recording, current_sequence, last_frame_time,
                   frame_timestamp, samples_collected, captured_under, dir0,
                   now, data_dir>>

\* A variant that keeps the buffered frames when a letter ends a recording.
KeyLetter_keep(key) ==
    /\ pc = "key"
    /\ pc' = "loop"
    /\ current_label' = key
    /\ is_recording' = FALSE
    /\ fed' = -1
    /\ UNCHANGED <<offCollector, last_frame_time, frame_timestamp, current_sequence,
                   captured_under, samples_collected, dir0, now, data_dir>>

\* A letter key other than q, d, s.
KeyLetter(key) ==
    /\ pc = "key"
    /\ pc' = "loop"
    /\ current_label' = key
    /\ is_recording' = FALSE
    /\ current_sequence' = <<>>
    /\ captured_under' = {}
    /\ fed' = -1
    /\ UNCHANGED <<offCollector, last_frame_time, frame_timestamp,
                   samples_collected, dir0, now, data_dir>>

\* A sample as the collector writes it, captured under label l.
GoodSample(l) == [shape |-> <<SEQUENCE_LENGTH, TOTAL_FEATURES>>, labs |-> {l}]

\* DATA_DIR with no label directory.
EmptyDir == [l \in {} |-> <<>>]

\* A label directory holding good samples under the numbers of S.
LabelDir(l, S) == [i \in S |-> GoodSample(l)]

\* DATA_DIR when the collector starts: nothing yet, or samples of label "a"
\* with a gap in their numbers.
CollectorDisks ==
    {EmptyDir, [l \in {"a"} |-> LabelDir("a", {0, 1, MaxIndex})]}

CollectorInit ==
    /\ pc = "loop"
    /\ current_label = NoLabel
    /\ is_recording = FALSE
    /\ current_sequence = <<>>
    /\ captured_under = {}
    /\ fed = -1
    /\ dir0 = EmptyDir
    /\ last_frame_time = 0
    /\ frame_timestamp = 0
    /\ now = 0
    /\ data_dir \in CollectorDisks
    /\ samples_collected = get_data_stats(data_dir)

(***************************************************************************)
(* The dataset loader (train_model.load_data).                             *)
(***************************************************************************)
\* Python's order on the label strings of the model: "a" < "b" < "hi".
LabelRank(l) == CASE l = "a" -> 1 [] l = "b" -> 2 [] l = "hi" -> 3

\* sorted(S) for a set S of labels
SortedLabels(S) ==
    [i \in 1..Cardinality(S) |->
        CHOOSE l \in S : Cardinality({k \in S : LabelRank(k) < LabelRank(l)}) = i - 1]

\* The orders os.listdir may list the files of one label directory in.
FileOrders(files) ==
    {o \in [1..Cardinality(DOMAIN files) -> DOMAIN files] :
        \A i, j \in DOMAIN o : i # j => o[i] # o[j]}

\* The files in the order the two loops visit them: labels sorted, the files
\* of label l in the order order[l].  Each is [label, num, shape].
RECURSIVE Visit(_, _, _)
Visit(dir, labels, order) ==
    IF labels = <<>> THEN <<>>
    ELSE LET l == Head(labels)
         IN  [i \in 1..Len(order[l]) |->
                 [label |-> l, num |-> order[l][i], shape |-> dir[l][order[l][i]].shape]]
             \o Visit(dir, Tail(labels), order)

Listings(dir) ==
    LET AnyOrder == UNION {FileOrders(dir[l]) : l \in DOMAIN dir}
    IN  {Visit(dir, SortedLabels(DOMAIN dir), order) :
            order \in {o \in [DOMAIN dir -> AnyOrder] :
                          \A l \in DOMAIN dir : o[l] \in FileOrders(dir[l])}}

\* Line 82: the test a sample must pass to be kept.
IsValidSequence(shape) == Len(shape) = 2 /\ shape[1] = SEQUENCE_LENGTH

\* Lines 77-78: the feature count detected on the files visited.
DetectFeatures(visited) ==
    LET twoD == {i \in 1..Len(visited) : Len(visited[i].shape) = 2}
    IN  IF twoD = {} THEN 0
        ELSE visited[CHOOSE i \in twoD : \A j \in twoD : i <= j].shape[2]

\* np.array(sequences) succeeds on arrays of one shape; on arrays of
\* different shapes numpy raises ValueError.
Stackable(sequences) ==
    \A i \in 1..Len(sequences) : sequences[i].shape = sequences[1].shape

\* load_data on the files in visiting order: "none" is (None, None, None),
\* "raise" an exception out of load_data.  num_features 0 stands for None.
load_data(visited) ==
    LET kept      == SelectSeq(visited, LAMBDA e : IsValidSequence(e.shape))
        sequences == [i \in 1..Len(kept) |->
                        [src |-> <<kept[i].label, kept[i].num>>, shape |-> kept[i].shape]]
        labels    == [i \in 1..Len(kept) |-> kept[i].label]
    IN  IF Len(sequences) = 0
        THEN [status |-> "none", X |-> <<>>, y_labels |-> <<>>, num_features |-> 0]
        ELSE IF ~Stackable(sequences)
        THEN [status |-> "raise", X |-> <<>>, y_labels |-> <<>>, num_features |-> 0]
        ELSE [status |-> "ok", X |-> sequences, y_labels |-> labels,
              num_features |-> DetectFeatures(visited)]

\* A variant that lists the classes in decreasing order.
EncoderClasses_reversed(y_labels) ==
    LET sorted == SortedLabels({y_labels[i] : i \in 1..Len(y_labels)})
    IN  [k \in 1..Len(sorted) |-> sorted[Len(sorted) + 1 - k]]

\* LabelEncoder.fit: classes_ is the sorted distinct labels.
EncoderClasses(y_labels) == SortedLabels({y_labels[i] : i \in 1..Len(y_labels)})

\* LabelEncoder.transform: the 0-based position of each label in classes.
EncoderTransform(classes, y_labels) ==
    [i \in 1..Len(y_labels) |->
        (CHOOSE k \in 1..Len(classes) : classes[k] = y_labels[i]) - 1]

(***************************************************************************)
(* Training (train_model.main).                                            *)
(*                                                                         *)
(* Weights are [run, epoch, nf, nc]: the training run and the number of    *)
(* epochs that produced them (history) and the layer sizes num_features    *)
(* and num_classes they were built for.  A validation accuracy is one of   *)
(* the levels 0..MaxAcc, standing for 0, 1/MaxAcc, .., 1.                  *)
(***************************************************************************)
EPOCHS == 100

patience == 20

\* The number of validation-accuracy levels above 0.
MaxAcc == 5

NoWeights == [run |-> -1, epoch |-> 0, nf |-> 0, nc |-> 0]

NoConfig == [sequence_length |-> 0, num_features |-> 0, num_classes |-> 0,
             labels |-> <<>>, run |-> -1]

NoLabels == [labels |-> <<>>, run |-> -1]

NotLoaded == [status |-> "not run", X |-> <<>>, y_labels |-> <<>>, num_features |-> 0]

\* The training run of the model; the files an earlier run left are run 0's.
ThisRun == 1

\* train_test_split(test_size=0.2, stratify=y) raises ValueError when a class
\* has fewer than 2 members or a side of the split is smaller than the
\* number of classes.
SplitRaises(labels) ==
    LET n       == Len(labels)
        classes == {labels[i] : i \in 1..n}
        n_test  == (n + 4) \div 5
        n_train == n - n_test
    IN  \/ \E c \in classes : Cardinality({i \in 1..n : labels[i] = c}) < 2
        \/ n_test < Cardinality(classes)
        \/ n_train < Cardinality(classes)

\* A script is not in the middle of a run ("off": it is not run at all).  The
\* two scripts are run one at a time.
Quiescent(p) == p \in {"off", "start", "returned", "crashed", "done"}

\* A variant that takes an accuracy equal to the best for an improvement.
IsImprovement_or_equal(val_acc) == val_acc >= best_val_acc

\* Line 285
IsImprovement(val_acc) == val_acc > best_val_acc

\* load_state_dict accepts weights built for the layer sizes of the model.
SameLayout(w1, w2) == w1.nf = w2.nf /\ w1.nc = w2.nc

\* Lines 199-207: load_data on DATA_DIR, in any listing order.
T_LoadData ==
    /\ tpc = "start"
    /\ Quiescent(epc)
    /\ \E visited \in Listings(data_dir) :
          LET r == load_data(visited)
          IN  /\ loaded' = r
              /\ tpc' = CASE r.status = "none"  -> "returned"
                          [] r.status = "raise" -> "crashed"
                          [] OTHER              -> "encode"
    /\ UNCHANGED <<y, model, epoch, best_val_acc, patience_counter, hist_max,
                   hist_argmax, artifactVars, exportVars, featureVars,
                   collectorVars, data_dir>>

\* Lines 215-236: the labels are encoded, the config and the labels written.
T_SaveConfig ==
    /\ tpc = "encode"
    /\ LET classes == EncoderClasses(loaded.y_labels)
       IN  /\ y' = EncoderTransform(classes, loaded.y_labels)
           /\ config_file' = [sequence_length |-> SEQUENCE_LENGTH,
                              num_features    |-> loaded.num_features,
                              num_classes     |-> Len(classes),
                              labels          |-> classes,
                              run             |-> ThisRun]
           /\ labels_file' = [labels |-> classes, run |-> ThisRun]
    /\ tpc' = "split"
    /\ UNCHANGED <<loaded, model, epoch, best_val_acc, patience_counter,
                   hist_max, hist_argmax, best_pt, model_pt, exportVars,
                   featureVars, collectorVars, data_dir>>

\* Lines 239-271: the split, the model and the loop variables.
T_Split ==
    /\ tpc = "split"
    /\ IF SplitRaises(y)
       THEN /\ tpc' = "crashed"
            /\ UNCHANGED <<model, epoch, best_val_acc, patience_counter>>
       ELSE /\ tpc' = "train"
            /\ model' = [run |-> ThisRun, epoch |-> 0,
                         nf |-> config_file.num_features,
                         nc |-> config_file.num_classes]
            /\ epoch' = 0
            /\ best_val_acc' = 0
            /\ patience_counter' = 0
    /\ UNCHANGED <<loaded, y, hist_max, hist_argmax, artifactVars, exportVars,
                   featureVars, collectorVars, data_dir>>

\* Lines 273-295: one epoch of training and evaluation with validation
\* accuracy val_acc, the checkpoint, and the early-stopping test.  The GRU
\* raises on the first batch when the arrays' feature count is not the
\* num_features the model was built for.
T_Epoch(val_acc) ==
    /\ tpc = "train"
    /\ IF loaded.X[1].shape[2] # model.nf
       THEN /\ tpc' = "crashed"
            /\ UNCHANGED <<model, epoch, best_val_acc, patience_counter,
                           hist_max, hist_argmax, best_pt>>
       ELSE LET trained == [model EXCEPT !.epoch = epoch + 1]
                counter == IF IsImprovement(val_acc) THEN 0
                           ELSE patience_counter + 1
            IN  /\ model' = trained
                /\ epoch' = epoch + 1
                /\ IF IsImprovement(val_acc)
                   THEN /\ best_val_acc' = val_acc
                        /\ best_pt' = trained
                   ELSE UNCHANGED <<best_val_acc, best_pt>>
                /\ patience_counter' = counter
                /\ IF val_acc > hist_max
                   THEN hist_max' = val_acc /\ hist_argmax' = epoch + 1
                   ELSE UNCHANGED <<hist_max, hist_argmax>>
                /\ tpc' = IF counter >= patience \/ epoch + 1 >= EPOCHS
                          THEN "load_best" ELSE "train"
    /\ UNCHANGED <<loaded, y, config_file, labels_file, model_pt, exportVars,
                   featureVars, collectorVars, data_dir>>

\* Line 298: torch.load raises when the checkpoint file is missing, and
\* load_state_dict when it was saved for other layer sizes.
T_LoadBest ==
    /\ tpc = "load_best"
    /\ IF best_pt # NoWeights /\ SameLayout(best_pt, model)
       THEN model' = best_pt /\ tpc' = "save"
       ELSE tpc' = "crashed" /\ UNCHANGED model
    /\ UNCHANGED <<loaded, y, epoch, best_val_acc, patience_counter, hist_max,
                   hist_argmax, artifactVars, exportVars, featureVars,
                   collectorVars, data_dir>>

\* Lines 313-315
T_SaveFinal ==
    /\ tpc = "save"
    /\ model_pt' = model
    /\ tpc' = "done"
    /\ UNCHANGED <<loaded, y, model, epoch, best_val_acc, patience_counter,
                   hist_max, hist_argmax, config_file, labels_file, best_pt,
                   exportVars, featureVars, collectorVars, data_dir>>

(***************************************************************************)
(* Export (convert_to_onnx.main).  The exported graph is the weights it    *)
(* was traced from with the input and output shapes it declares; the       *)
(* public folder holds the published graph, labels and config.             *)
(***************************************************************************)
NoOnnx == [weights |-> NoWeights, input |-> <<0, 0>>, output |-> 0]

NoPublic == [onnx |-> NoOnnx, labels |-> NoLabels, config |-> NoConfig]

\* Lines 74-82: the config is read, or the script returns without one.
E_LoadConfig ==
    /\ Quiescent(epc)
    /\ Quiescent(tpc)
    /\ public0' = public
    /\ verified' = "not run"
    /\ IF config_file = NoConfig
       THEN epc' = "returned" /\ UNCHANGED e_config
       ELSE epc' = "load_model" /\ e_config' = config_file
    /\ UNCHANGED <<e_model, onnx_file, public, trainVars, artifactVars,
                   featureVars, collectorVars, data_dir>>

\* Lines 85-102: the script returns without sign_model.pt; load_state_dict
\* raises on weights saved for other layer sizes than the config's.
E_LoadModel ==
    /\ epc = "load_model"
    /\ IF model_pt = NoWeights
       THEN epc' = "returned" /\ UNCHANGED e_model
       ELSE IF model_pt.nf # e_config.num_features \/ model_pt.nc # e_config.num_classes
       THEN epc' = "crashed" /\ UNCHANGED e_model
       ELSE epc' = "export" /\ e_model' = model_pt
    /\ UNCHANGED <<e_config, onnx_file, public, verified, public0, trainVars,
                   artifactVars, featureVars, collectorVars, data_dir>>

\* Lines 104-146: the graph is traced on a dummy input of the config's shape.
E_Export ==
    /\ epc = "export"
    /\ onnx_file' = [weights |-> e_model,
                     input   |-> <<e_config.sequence_length, e_config.num_features>>,
                     output  |-> e_model.nc]
    /\ epc' = "copy_onnx"
    /\ UNCHANGED <<e_config, e_model, public, verified, public0, trainVars,
                   artifactVars, featureVars, collectorVars, data_dir>>

\* Lines 148-154
E_CopyOnnx ==
    /\ epc = "copy_onnx"
    /\ public' = [public EXCEPT !.onnx = onnx_file]
    /\ epc' = "copy_labels"
    /\ UNCHANGED <<e_config, e_model, onnx_file, verified, public0, trainVars,
                   artifactVars, featureVars, collectorVars, data_dir>>

\* Lines 156-160: shutil.copy raises when labels.json is missing.
E_CopyLabels ==
    /\ epc = "copy_labels"
    /\ IF labels_file = NoLabels
       THEN epc' = "crashed" /\ UNCHANGED public
       ELSE /\ public' = [public EXCEPT !.labels = labels_file]
            /\ epc' = "copy_config"
    /\ UNCHANGED <<e_config, e_model, onnx_file, verified, public0, trainVars,
                   artifactVars, featureVars, collectorVars, data_dir>>

\* Lines 162-165
E_CopyConfig ==
    /\ epc = "copy_config"
    /\ public' = [public EXCEPT !.config = config_file]
    /\ epc' = "verify"
    /\ UNCHANGED <<e_config, e_model, onnx_file, verified, public0, trainVars,
                   artifactVars, featureVars, collectorVars, data_dir>>

\* Lines 167-182: the published graph is checked inside try/except; outcome
\* is "ok", or "exception" when the import or check_model raises, which is
\* printed and swallowed.  The script then reports completion.
E_Verify(outcome) ==
    /\ epc = "verify"
    /\ verified' = outcome
    /\ epc' = "done"
    /\ UNCHANGED <<e_config, e_model, onnx_file, public, public0, trainVars,
                   artifactVars, featureVars, collectorVars, data_dir>>

(***************************************************************************)
(* Specifications.  Each runs one part of the pipeline; the state of the   *)
(* other parts stays as it is.                                             *)
(***************************************************************************)
FeaturesIdle ==
    /\ hand_result = [handedness |-> <<>>, hand_landmarks |-> <<>>]
    /\ pose_result = <<>>
    /\ features = NotRun

CollectorIdleOn(disks) ==
    /\ pc = "off"
    /\ current_label = NoLabel
    /\ is_recording = FALSE
    /\ current_sequence = <<>>
    /\ captured_under = {}
    /\ fed = -1
    /\ dir0 = EmptyDir
    /\ last_frame_time = 0
    /\ frame_timestamp = 0
    /\ now = 0
    /\ data_dir \in disks
    /\ samples_collected = get_data_stats(data_dir)

CollectorIdle == CollectorIdleOn({EmptyDir})

\* Nothing trained, nothing exported, nothing published.
NoArtifacts ==
    /\ config_file = NoConfig
    /\ labels_file = NoLabels
    /\ best_pt = NoWeights
    /\ model_pt = NoWeights

TrainInit(at) ==
    /\ tpc = at
    /\ loaded = NotLoaded
    /\ y = <<>>
    /\ model = NoWeights
    /\ epoch = 0
    /\ best_val_acc = 0
    /\ patience_counter = 0
    /\ hist_max = -1
    /\ hist_argmax = 0

ExportInit(at) ==
    /\ epc = at
    /\ e_config = NoConfig
    /\ e_model = NoWeights
    /\ onnx_file = NoOnnx
    /\ public = NoPublic
    /\ verified = "not run"
    /\ public0 = NoPublic

PipelineIdle == TrainInit("off") /\ ExportInit("off") /\ NoArtifacts

\* Feature extraction on every detector output of HandResults x PoseResults.
InitFeatures == FeaturesInit /\ CollectorIdle /\ PipelineIdle

NextFeatures == ExtractFrame /\ UNCHANGED <<collectorVars, data_dir, pipelineVars>>

SpecFeatures == InitFeatures /\ [][NextFeatures]_vars

\* The collector's main loop.
Init == FeaturesIdle /\ CollectorInit /\ PipelineIdle

Next ==
    \/ ReadFail
    \/ \E frame \in CollectorFrames : Tick(frame)
    \/ KeyQuit
    \/ KeySpace
    \/ KeyOther
    \/ \E typed \in TypedNames : KeyCustom(typed)
    \/ \E key \in LetterKeys : KeyLetter(key)

Spec == Init /\ [][Next]_vars

\* get_next_sample_number and the save that follows it, on label directories
\* holding any sample numbers within 0..MaxIndex, one recording after another.
IndexDisks ==
    {[l \in {"a", "b"} |-> LabelDir(l, T[l])] :
        T \in [{"a", "b"} -> SUBSET (0..MaxIndex)]}
    \cup {[l \in {"a"} |-> LabelDir(l, S)] : S \in SUBSET (0..MaxIndex)}
    \cup {EmptyDir}

InitIndex ==
    /\ FeaturesIdle
    /\ PipelineIdle
    /\ pc = "off"
    /\ current_label \in {"a", "b"}
    /\ is_recording = FALSE
    /\ current_sequence = <<>>
    /\ captured_under = {}
    /\ fed = -1
    /\ dir0 = EmptyDir
    /\ last_frame_time = 0
    /\ frame_timestamp = 0
    /\ now = 0
    /\ data_dir \in IndexDisks
    /\ samples_collected = get_data_stats(data_dir)

\* A completed buffer of the current label is saved.
SaveRecording ==
    /\ get_next_sample_number(data_dir, current_label) <= MaxIndex + 2
    /\ Persist([i \in 1..SEQUENCE_LENGTH |-> TOTAL_FEATURES], {current_label})
    /\ UNCHANGED <<offCollector, pc, current_label, is_recording, current_sequence,
                   last_frame_time, frame_timestamp, captured_under, fed, dir0,
                   now>>

\* The label of the next recording is set.
NextLabel(l) ==
    /\ current_label' = l
    /\ UNCHANGED <<offCollector, pc, is_recording, current_sequence,
                   last_frame_time, frame_timestamp, samples_collected,
                   captured_under, fed, dir0, now, data_dir>>

NextIndex == SaveRecording \/ \E l \in {"a", "b"} : NextLabel(l)

SpecIndex == InitIndex /\ [][NextIndex]_vars

\* The shapes of the arrays found in the data directory: as the collector
\* saves them, saved with another feature count (USE_POSE off), short,
\* 1-dimensional, 3-dimensional.
FileShapes ==
    {<<SEQUENCE_LENGTH, TOTAL_FEATURES>>, <<SEQUENCE_LENGTH, 2 * HAND_FEATURES>>,
     <<10, TOTAL_FEATURES>>, <<SEQUENCE_LENGTH>>, <<SEQUENCE_LENGTH, TOTAL_FEATURES, 1>>}

\* The largest number of files of one label directory.
MaxFiles == 2

\* The directory of label l holding arrays of the shapes shapes[0], shapes[1], ..
ShapedDir(l, shapes) ==
    [i \in 0..(Len(shapes) - 1) |-> [shape |-> shapes[i + 1], labs |-> {l}]]

ShapeLists == UNION {[1..n -> FileShapes] : n \in 0..MaxFiles}

LoadDisks ==
    {[l \in {"a", "b"} |-> ShapedDir(l, T[l])] : T \in [{"a", "b"} -> ShapeLists]}
    \cup {[l \in {"b"} |-> ShapedDir(l, S)] : S \in ShapeLists}
    \cup {EmptyDir}

\* load_data and the label encoding of train_model.main on every data
\* directory of LoadDisks.
InitLoad ==
    /\ FeaturesIdle
    /\ CollectorIdleOn(LoadDisks)
    /\ TrainInit("start") /\ ExportInit("off") /\ NoArtifacts

NextLoad == T_LoadData \/ T_SaveConfig

SpecLoad == InitLoad /\ [][NextLoad]_vars

\* Data directories for a training run: none; samples as the collector
\* saves them; one sample; a short sample of another feature count among
\* good ones; samples of two feature counts.
TrainDisks ==
    LET good  == <<SEQUENCE_LENGTH, TOTAL_FEATURES>>
        hands == <<SEQUENCE_LENGTH, 2 * HAND_FEATURES>>
        short == <<10, 2 * HAND_FEATURES>>
    IN  {EmptyDir,
         [l \in {"a"} |-> ShapedDir(l, <<good, good>>)],
         [l \in {"a"} |-> ShapedDir(l, <<good>>)],
         [l \in {"a"} |-> ShapedDir(l, <<short, good, good>>)],
         [l \in {"a"} |-> ShapedDir(l, <<good, hands>>)],
         [l \in {"a", "b"} |-> ShapedDir(l, <<good, good>>)]}

\* The weights an earlier run on nf features and nc classes left behind.
EarlierWeights(nf, nc) == [run |-> 0, epoch |-> 1, nf |-> nf, nc |-> nc]

\* The models directory and the config directory before the run: empty, or
\* as a completed earlier run on a one-label dataset left them.
EarlierRun(nf) ==
    /\ config_file = [sequence_length |-> SEQUENCE_LENGTH, num_features |-> nf,
                      num_classes |-> 1, labels |-> <<"b">>, run |-> 0]
    /\ labels_file = [labels |-> <<"b">>, run |-> 0]
    /\ best_pt = EarlierWeights(nf, 1)
    /\ model_pt = EarlierWeights(nf, 1)

\* One training run, with export runs before it and after it.
InitTrain ==
    /\ FeaturesIdle
    /\ CollectorIdleOn(TrainDisks)
    /\ TrainInit("start")
    /\ ExportInit("start")
    /\ \/ NoArtifacts
       \/ EarlierRun(TOTAL_FEATURES)
       \/ EarlierRun(2 * HAND_FEATURES)

NextTrain ==
    \/ T_LoadData
    \/ T_SaveConfig
    \/ T_Split
    \/ \E val_acc \in 0..MaxAcc : T_Epoch(val_acc)
    \/ T_LoadBest
    \/ T_SaveFinal
    \/ E_LoadConfig
    \/ E_LoadModel
    \/ E_Export
    \/ E_CopyOnnx
    \/ E_CopyLabels
    \/ E_CopyConfig
    \/ \E outcome \in {"ok", "exception"} : E_Verify(outcome)

SpecTrain == InitTrain /\ [][NextTrain]_vars

(***************************************************************************)
(* Properties.                                                             *)
(***************************************************************************)
\* The left-hand, right-hand and pose parts of a frame vector.
LeftSlot(v) == SubSeq(v, 1, 63)

RightSlot(v) == SubSeq(v, 64, 126)

\* The sample numbers of label l in DATA_DIR dir.
Numbers(dir, l) == IF l \in DOMAIN dir THEN DOMAIN dir[l] ELSE {}

\* dir2 is dir1 with exactly one more array, under label l and number n, and
\* every array of dir1 as it was.
OneMoreSample(dir1, dir2, l, n) ==
    /\ n \notin Numbers(dir1, l)
    /\ DOMAIN dir2 = (DOMAIN dir1) \cup {l}
    /\ Numbers(dir2, l) = Numbers(dir1, l) \cup {n}
    /\ \A k \in DOMAIN dir1 :
          /\ k # l => Numbers(dir2, k) = Numbers(dir1, k)
          /\ \A i \in Numbers(dir1, k) : dir2[k][i] = dir1[k][i]

\* C1: whatever was detected in a frame (zero, one or two hands of 21
\* landmarks, pose present, truncated or absent), extract_all_features
\* returns a vector of exactly 159 values.
C1_FixedLength == features # NotRun => Len(features) = 159

\* C1 witness: the vector of a frame with two hands and no pose.
C1_Witness ==
    /\ features # NotRun
    /\ Len(hand_result.handedness) = 2
    /\ pose_result = <<>>

\* C2: after a start command, once 30 sampling ticks at or above the
\* interval have been fed with no other command, DATA_DIR is what it was at
\* the start plus exactly one array of shape (30, 159) under the current
\* label, the recorder is idle and the buffer empty; before the 30th such
\* tick nothing has been saved and the buffer holds the frames fed so far;
\* idle ticks after it save nothing more.
C2_OneSampleAtThirty ==
    /\ (fed >= 0 /\ fed < 30) =>
          /\ is_recording
          /\ Len(current_sequence) = fed
          /\ data_dir = dir0
    /\ fed >= 30 =>
          /\ fed = 30
          /\ ~is_recording
          /\ current_sequence = <<>>
          /\ \E n \in Numbers(data_dir, current_label) :
                /\ OneMoreSample(dir0, data_dir, current_label, n)
                /\ data_dir[current_label][n].shape = <<30, 159>>

\* C2 witness: the 30th tick has been fed and later idle ticks have passed.
C2_Witness == fed = 30 /\ pc = "loop" /\ frame_timestamp > 33 * 32

\* C3: a cancel command (SPACE while recording), whatever the number of
\* frames captured so far, leaves DATA_DIR and the per-label counters as
\* they were, empties the buffer and makes the recorder idle.
C3_CancelDiscards ==
    [][(KeySpace /\ is_recording) =>
          /\ Len(current_sequence) < 30
          /\ data_dir' = data_dir
          /\ samples_collected' = samples_collected
          /\ current_sequence' = <<>>
          /\ ~is_recording']_vars

\* C3 witness: a recording cancelled with frames in the buffer has left
\* the recorder idle with nothing saved since the start command.
C3_Witness ==
    /\ pc = "loop"
    /\ ~is_recording
    /\ current_sequence = <<>>
    /\ last_frame_time > 20
    /\ current_label = "b"
    /\ data_dir = dir0
    /\ samples_collected["b"] = 0

\* C4: each save adds exactly one array, leaves every existing array as it
\* was, and numbers the new one 0 when the label has no sample and one more
\* than the largest existing number otherwise, so above every existing one.
C4_NextIndex ==
    [][data_dir' # data_dir =>
          \E n \in Numbers(data_dir', current_label) :
             /\ OneMoreSample(data_dir, data_dir', current_label, n)
             /\ Numbers(data_dir, current_label) = {} => n = 0
             /\ \A i \in Numbers(data_dir, current_label) : n > i
             /\ \E i \in Numbers(data_dir, current_label) \cup {-1} : n = i + 1]_vars

\* C4 witness: a label that held samples 0, 1 and 3 has got sample 4.
C4_Witness ==
    /\ "a" \in DOMAIN data_dir
    /\ DOMAIN data_dir["a"] = {0, 1, 3, 4}
    /\ samples_collected["a"] = 4

\* C5: the right-hand slot (positions 63..125) holds the normalised
\* landmarks of the detection labelled "Left" and the left-hand slot
\* (positions 0..62) those of the detection labelled "Right" (of the later
\* one when two detections carry the same label); a slot whose side was not
\* detected is all zeros.
C5_MirroredSlots ==
    features # NotRun =>
        LET hd == hand_result.handedness
            lm == hand_result.hand_landmarks
        IN  /\ \A i \in 1..Len(hd) :
                  (\A j \in (i + 1)..Len(hd) : hd[j] # hd[i]) =>
                      IF hd[i] = "Left"
                      THEN RightSlot(features) = normalize_hand_landmarks(lm[i])
                      ELSE LeftSlot(features) = normalize_hand_landmarks(lm[i])
            /\ (\A i \in 1..Len(hd) : hd[i] # "Left") =>
                  RightSlot(features) = [k \in 1..63 |-> <<0, 1>>]
            /\ (\A i \in 1..Len(hd) : hd[i] # "Right") =>
                  LeftSlot(features) = [k \in 1..63 |-> <<0, 1>>]

\* C5 witness: a single detection labelled "Left" of a hand that does not
\* normalise to zeros.
C5_Witness ==
    /\ features # NotRun
    /\ hand_result.handedness = <<"Left">>
    /\ hand_result.hand_landmarks = <<HandA>>
    /\ RightSlot(features) # LeftSlot(features)

\* C6: the label does not change while the recorder stays in RECORDING, and
\* every array on disk holds only frames captured while the label of its
\* directory was the active label.
C6_LabelFixedWhileRecording ==
    /\ [][(is_recording /\ current_label' # current_label) =>
             (~is_recording' /\ current_sequence' = <<>> /\ data_dir' = data_dir)]_vars
    /\ [](\A l \in DOMAIN data_dir : \A i \in DOMAIN data_dir[l] :
             data_dir[l][i].labs = {l})

\* The persisted samples load_data is to return: <<label, number>> of every
\* file whose array is 2-dimensional with first dimension 30.
ValidSamples(dir) ==
    UNION {{<<l, n>> : n \in {m \in DOMAIN dir[l] :
                                /\ Len(dir[l][m].shape) = 2
                                /\ dir[l][m].shape[1] = 30}} : l \in DOMAIN dir}

\* C7: once load_data has run, its result is the None result exactly when
\* the directory holds no 2-dimensional sample of first dimension 30;
\* otherwise it returns those samples, each once and no other, and the label
\* at each position is the directory the sample at that position was read
\* from.
C7_LoadReturnsValidSamples ==
    tpc # "start" =>
        LET valid == ValidSamples(data_dir)
            X     == loaded.X
        IN  /\ (loaded.status = "none") <=> (valid = {})
            /\ valid # {} =>
                  /\ loaded.status = "ok"
                  /\ {X[i].src : i \in 1..Len(X)} = valid
                  /\ Len(X) = Cardinality(valid)
                  /\ Len(loaded.y_labels) = Len(X)
                  /\ \A i \in 1..Len(X) : loaded.y_labels[i] = X[i].src[1]

\* C8: once the config and the labels are written, the config's label list
\* is the distinct labels of the loaded samples in increasing order,
\* num_classes is its length, the labels file holds the same list, and the
\* class of every sample is the 0-based position of its label in the list.
C8_ClassIndexIsSortedPosition ==
    tpc = "split" =>
        LET labels == config_file.labels
        IN  /\ {labels[k] : k \in 1..Len(labels)}
                  = {loaded.y_labels[i] : i \in 1..Len(loaded.y_labels)}
            /\ \A j, k \in 1..Len(labels) :
                  j < k => LabelRank(labels[j]) < LabelRank(labels[k])
            /\ config_file.num_classes = Len(labels)
            /\ labels_file.labels = labels
            /\ Len(y) = Len(loaded.y_labels)
            /\ \A i \in 1..Len(y) : labels[y[i] + 1] = loaded.y_labels[i]

\* C8 witness: samples of two labels are loaded and encoded, two of each.
C8_Witness ==
    /\ tpc = "split"
    /\ config_file.labels = <<"a", "b">>
    /\ y = <<0, 0, 1, 1>>

\* C9: when the run has finished, the final model file holds the weights of
\* this run as they stood after the earliest epoch that reached the highest
\* validation accuracy of the run.
C9_FinalModelIsBestEpoch ==
    tpc = "done" =>
        /\ model_pt.run = ThisRun
        /\ model_pt.epoch = hist_argmax

\* C10: an export whose validation of the published graph raised, or whose
\* graph declares shapes other than the config's, has left the public folder
\* as it was when the export started.
C10_FailedValidationPublishesNothing ==
    (/\ epc = "done"
     /\ \/ verified = "exception"
        \/ onnx_file.input # <<e_config.sequence_length, e_config.num_features>>
        \/ onnx_file.output # e_config.num_classes)
        => public = public0

\* C11: when the two detections of a frame carry the same handedness label,
\* the slot of that side holds the normalised landmarks of the second
\* detection and the slot of the other side is 63 zeros.
C11_LastDetectionWins ==
    (/\ features # NotRun
     /\ Len(hand_result.handedness) = 2
     /\ hand_result.handedness[1] = hand_result.handedness[2])
        => LET later == normalize_hand_landmarks(hand_result.hand_landmarks[2])
               zeros == [k \in 1..HAND_FEATURES |-> <<0, 1>>]
           IN  IF hand_result.handedness[2] = "Left"
               THEN RightSlot(features) = later /\ LeftSlot(features) = zeros
               ELSE LeftSlot(features) = later /\ RightSlot(features) = zeros

\* C11 witness: two detections labelled "Right" of hands that normalise to
\* different values.
C11_Witness ==
    /\ features # NotRun
    /\ hand_result.handedness = <<"Right", "Right">>
    /\ hand_result.hand_landmarks = <<HandA, HandB>>
    /\ normalize_hand_landmarks(HandA) # normalize_hand_landmarks(HandB)
    /\ LeftSlot(features) = normalize_hand_landmarks(HandB)

\* C12: the feature count load_data reports is the second dimension of
\* every sample of the array it returns, and it is the num_features the
\* config is written with.
C12_FeatureCountIsSecondDimension ==
    /\ loaded.status = "ok" =>
          \A i \in 1..Len(loaded.X) : loaded.X[i].shape[2] = loaded.num_features
    /\ tpc = "split" =>
          \A i \in 1..Len(loaded.X) : loaded.X[i].shape[2] = config_file.num_features

\* C13: load_data does not raise, whatever the shapes of the persisted
\* samples; its only failure outcome is the None result, returned when no
\* sample is valid.
C13_LoadNeverRaises ==
    /\ loaded.status # "raise"
    /\ tpc \notin {"start", "crashed"} =>
          (loaded.status = "none" <=> ValidSamples(data_dir) = {})

\* C14: a tick taken while recording, at clock reading now', appends one
\* frame (the 30th is saved with the sample, the buffer emptied) and sets
\* last_frame_time to now' exactly when now' - last_frame_time is at least
\* frame_delay, and otherwise leaves the buffer and last_frame_time as they
\* were; and while a recording lasts last_frame_time changes only on such a
\* capture, so consecutive frames are at least frame_delay apart.
C14_RateLimitedCapture ==
    /\ [][(is_recording /\ frame_timestamp' # frame_timestamp) =>
             IF now' - last_frame_time >= frame_delay
             THEN /\ last_frame_time' = now'
                  /\ \/ /\ is_recording'
                        /\ Len(current_sequence') = Len(current_sequence) + 1
                        /\ SubSeq(current_sequence', 1, Len(current_sequence))
                              = current_sequence
                        /\ Len(current_sequence') < 30
                     \/ /\ ~is_recording'
                        /\ Len(current_sequence) = 29
                        /\ current_sequence' = <<>>
                        /\ \E n \in Numbers(data_dir', current_label) :
                              /\ OneMoreSample(data_dir, data_dir', current_label, n)
                              /\ data_dir'[current_label][n].shape[1] = 30
             ELSE /\ current_sequence' = current_sequence
                  /\ last_frame_time' = last_frame_time
                  /\ is_recording'
                  /\ data_dir' = data_dir]_vars
    /\ [][(is_recording /\ last_frame_time' # last_frame_time) =>
             /\ frame_timestamp' # frame_timestamp
             /\ last_frame_time' - last_frame_time >= frame_delay]_vars

\* C14 witness: a recording with two frames captured whose last tick came
\* before the interval had elapsed and was dropped.
C14_Witness ==
    /\ pc = "key"
    /\ is_recording
    /\ Len(current_sequence) = 2
    /\ now > last_frame_time
    /\ now - last_frame_time < frame_delay

\* C15: every step that takes the recorder from RECORDING to IDLE either
\* saves the sample or is the cancel command (SPACE while recording).
C15_OnlyCancelAborts ==
    [][(is_recording /\ ~is_recording') =>
          \/ KeySpace
          \/ \E n \in Numbers(data_dir', current_label) :
                OneMoreSample(data_dir, data_dir', current_label, n)]_vars

\* C16: frame_timestamp, the timestamp passed to both detectors, is larger
\* at every detection call than at the one before: an iteration that makes
\* the calls (from the top of the loop to the key handling) raises it, and
\* no other step, a failed camera read included, changes it.
C16_TimestampsIncrease ==
    /\ [][(pc = "loop" /\ pc' = "key") => frame_timestamp' > frame_timestamp]_vars
    /\ [][~(pc = "loop" /\ pc' = "key") => frame_timestamp' = frame_timestamp]_vars

\* C16 witness: the detectors have been called for a third frame.
C16_Witness == pc = "key" /\ frame_timestamp = 99

\* The epochs run since the last epoch whose validation accuracy was above
\* every accuracy before it and above 0, the best before the first epoch.
StaleEpochs == epoch - (IF hist_max > 0 THEN hist_argmax ELSE 0)

\* C17: the loop never runs more than 100 epochs; it goes on to another
\* epoch only when fewer than 100 have run and fewer than 20 have passed
\* since the last strict improvement; and it has ended either with exactly
\* 20 epochs passed since the last strict improvement or after the 100th
\* epoch.  The test is made between whole epochs.
C17_StopsAtPatienceOrCap ==
    /\ epoch <= 100
    /\ tpc = "train" => (epoch < 100 /\ StaleEpochs < 20)
    /\ tpc \in {"load_best", "save", "done"} =>
          /\ epoch >= 1
          /\ StaleEpochs = 20 \/ (epoch = 100 /\ StaleEpochs < 20)

\* C17 witness: the loop has stopped early at epoch 37, 20 epochs after the
\* improvement of epoch 17.
C17_Witness ==
    /\ tpc = "load_best"
    /\ epoch = 37
    /\ hist_max > 0
    /\ hist_argmax = 17

\* C18: in every state of the collector, between iterations and between
\* the recording logic and the key handling: an idle recorder has an empty
\* buffer, a recording one has a label, and the buffer holds fewer than 30
\* frames.
C18_RecorderInvariant ==
    /\ ~is_recording => current_sequence = <<>>
    /\ is_recording => current_label # NoLabel
    /\ Len(current_sequence) < 30

\* C18 witness: at an iteration boundary, a recording one frame short of
\* complete.
C18_Witness ==
    /\ pc = "loop"
    /\ is_recording
    /\ current_label # NoLabel
    /\ Len(current_sequence) = 29

\* C19: when an export has run to its end, the graph, the labels and the
\* config in the public folder come from one training run: the weights the
\* graph was traced from were trained by the run that wrote the published
\* labels and the published config.
C19_PublishedFromOneRun ==
    epc = "done" =>
        /\ public.onnx.weights.run = public.config.run
        /\ public.labels.run = public.config.run
        /\ public.labels.labels = public.config.labels

====
